---- MODULE Spec2Model ----
(***************************************************************************)
(* Model of src/zmq.js: the Socket wrapper around a zmq handle.            *)
(*                                                                         *)
(* JavaScript is single threaded and re-entrant, so the program's position *)
(* is a call stack of frames.  A frame is one of                           *)
(*   k = "flush"    an activation of Socket.prototype._flush that passed   *)
(*                  the guard; pc is its position, flags its local `flags`,*)
(*                  args the parts collected in emitArgs, e the exception  *)
(*                  travelling to the catch clause, fresh whether no recv  *)
(*                  and no listener has run since flags was read           *)
(*   k = "handler"  an application listener run by emit('message') or      *)
(*                  emit('error'); pc names the event                      *)
(*   k = "close"    Socket.prototype.close between its watcher and handle  *)
(*                  statements                                             *)
(*   k = "bindSync" Socket.prototype.bindSync between stopping the watcher *)
(*                  and the handle's bindSync                              *)
(* An empty stack is the event loop.  The handle (this._zmq) and the       *)
(* watcher (this._watcher) are outside src/.  zmq's io threads change the  *)
(* handle at any time: messages arrive between any two steps, and every    *)
(* read of the readiness may find the writability changed.                 *)
(***************************************************************************)
EXTENDS Integers, Sequences, FiniteSets, TLC

\* ---------------------------------------------------------------- bounds
\* Inputs of the run: send() calls, inbound messages, injected handle
\* failures, handler throws, bind, bindSync and connect calls share one
\* budget.
MaxOps == 3
\* Most parts in one send() call or one inbound message.
MaxParts == 2

\* ------------------------------------------------------- program constants
ZMQ_POLLIN == 1
ZMQ_POLLOUT == 2
ZMQ_SNDMORE == 2

VARIABLES
  outgoing,   \* this._outgoing: sequence of [p, flags]
  inFlush,    \* this._inFlush
  watcher,    \* this._watcher: "started", "stopped", "released" (undefined)
  zstate,     \* this._zmq.state: "ready", "busy", "closed"
  stack,      \* call stack of frames, top last
  inbound,    \* handle: parts waiting to be received, [p, more]
  writable,   \* handle: the writability it reported when last asked
  bindPending,\* handle: an asynchronous bind has not called back yet
  sent,       \* history: the send calls made on the handle, [p, flags]
  nOk,        \* history: how many of them succeeded
  enq,        \* history: the groups send() was called with, concatenated
  msgLens,    \* history: the number of parts of each inbound message
  events,     \* history: the 'message' events emitted, each a sequence of parts
  errs,       \* history: the 'error' events emitted for an exception of recv,
              \* of send or of a listener, [src, flags, outgoing]
  failAt,     \* history: [flags, outgoing] at each failure of recv or send
  active,     \* counter: +1 when the guard is set, -1 when it is cleared
  ops,        \* inputs used so far
  lastOp,     \* the step just taken
  config      \* createSocket: its arguments, its outcome ("call" before it
              \* has run, then "sock" or "threw"), the options handed to
              \* setsockopt and the plain properties made on the wrapper

vars == <<outgoing, inFlush, watcher, zstate, stack, inbound, writable,
          bindPending, sent, nOk, enq, msgLens, events, errs, failAt,
          active, ops, lastOp, config>>

\* ---------------------------------------------------------------- helpers
HasBit(f, b) == (f \div b) % 2 = 1
ClearBit(f, b) == IF HasBit(f, b) THEN f - b ELSE f

IsPrefix(s, t) == Len(s) <= Len(t) /\ s = SubSeq(t, 1, Len(s))
Drop(s, n) == SubSeq(s, n + 1, Len(s))

Top == stack[Len(stack)]
Below == SubSeq(stack, 1, Len(stack) - 1)
Frame(k, pc) ==
  [k |-> k, pc |-> pc, flags |-> -1, args |-> <<>>, e |-> "none",
   fresh |-> FALSE]
InFrame(k, pc) == stack # <<>> /\ Top.k = k /\ Top.pc = pc
SetTop(f) == Below \o <<f>>
FlushFrames == {i \in 1..Len(stack) : stack[i].k = "flush"}

\* Application code is running: an event-loop callback or a listener.
AppCtx == IF stack = <<>> THEN TRUE ELSE Top.k = "handler"

\* ------------------------------------------------------------ the handle
\* Every handle operation fails unless the handle is ready.
HandleUsable == zstate = "ready"
\* this._ioevents (the ZMQ_EVENTS option): the readiness bitmask.
IoEventsOf(inb, w) ==
  (IF inb # <<>> THEN ZMQ_POLLIN ELSE 0) + (IF w THEN ZMQ_POLLOUT ELSE 0)

\* ---------------------------------------------------------------- send()
\* new Buffer(part, 'utf-8') unless the part is a Buffer already.
ToBuffer(part) ==
  IF part.t = "buf" THEN part ELSE [t |-> "buf", v |-> part.v]

SendPartsAllMore(args) ==
  [i \in 1..Len(args) |-> [p |-> ToBuffer(args[i]), flags |-> ZMQ_SNDMORE]]
\* The loop of send(): one [part, flags] per argument.
SendParts(args) ==
  [i \in 1..Len(args) |->
     [p |-> ToBuffer(args[i]),
      flags |-> IF i - 1 # Len(args) - 1 THEN ZMQ_SNDMORE ELSE 0]]

EnqueueFront(q, parts) == parts \o q
\* this._outgoing = this._outgoing.concat(parts)
Enqueue(q, parts) == q \o parts

GuardNever(g) == FALSE
\* if (this._inFlush === true) { return; }
GuardSet(g) == g = TRUE

\* The call of this._flush(): return at once under the guard, else set the
\* guard and enter the loop.
CallFlush(op, opGuarded) ==
  IF GuardSet(inFlush)
  THEN /\ lastOp' = opGuarded
       /\ UNCHANGED <<stack, inFlush, active>>
  ELSE /\ stack' = stack \o <<Frame("flush", "loop")>>
       /\ inFlush' = TRUE
       /\ active' = active + 1
       /\ lastOp' = op

\* The arguments of the next send() call: n parts, strings or Buffers, each
\* carrying the position it takes among all parts ever given to send().
Args(n, t) == [i \in 1..n |-> [t |-> t, v |-> Len(enq) + i]]
\* What the handle is to be given for them.
Group(args) ==
  [i \in 1..Len(args) |->
     [p |-> [t |-> "buf", v |-> args[i].v],
      flags |-> IF i < Len(args) THEN ZMQ_SNDMORE ELSE 0]]

Send(n, t) ==
  /\ AppCtx
  /\ ops < MaxOps
  /\ ops' = ops + 1
  /\ outgoing' = Enqueue(outgoing, SendParts(Args(n, t)))
  /\ enq' = enq \o Group(Args(n, t))
  /\ CallFlush("send", "sendGuarded")
  /\ UNCHANGED <<watcher, zstate, inbound, writable, bindPending, sent, nOk,
                 msgLens, events, errs, failAt>>
  /\ UNCHANGED config

\* The watcher's callback, this._flush.bind(this), run from the event loop.
WatcherFire ==
  /\ stack = <<>>
  /\ watcher = "started"
  /\ CallFlush("watcher", "watcherGuarded")
  /\ UNCHANGED <<outgoing, watcher, zstate, inbound, writable, bindPending,
                 sent, nOk, enq, msgLens, events, errs, failAt, ops>>
  /\ UNCHANGED config

\* ---------------------------------------------------------------- _flush
\* Leaving an activation with this._inFlush = false.
Leave(op) ==
  /\ stack' = Below
  /\ inFlush' = FALSE
  /\ active' = active - 1
  /\ lastOp' = op

\* An exception raised inside the try block goes to the catch clause.
Raise(e, op) ==
  /\ stack' = SetTop([Top EXCEPT !.pc = "catch", !.e = e])
  /\ lastOp' = op
  /\ UNCHANGED <<inFlush, active>>

MaskFlagsNot(ev, q) == ev
MaskFlagsAlways(ev, q) == ClearBit(ev, ZMQ_POLLOUT)
\* flags = this._ioevents; if the queue is empty, flags &= ~ZMQ_POLLOUT
MaskFlags(ev, q) == IF Len(q) = 0 THEN ClearBit(ev, ZMQ_POLLOUT) ELSE ev

\* The head of the while (true) loop: read the readiness, mask it, break
\* when nothing is left, else go on to the receive or the send part.
FlushLoop ==
  /\ InFrame("flush", "loop")
  /\ IF HandleUsable THEN writable' \in BOOLEAN ELSE UNCHANGED writable
  /\ IF ~HandleUsable
     THEN Raise("evErr", "loopThrow")
     ELSE LET flags == MaskFlags(IoEventsOf(inbound, writable'), outgoing) IN
          IF flags = 0
          THEN Leave("loopBreak")
          ELSE /\ stack' = SetTop([Top EXCEPT
                          !.flags = flags,
                          !.fresh = TRUE,
                          !.args = <<>>,
                          !.pc = IF HasBit(flags, ZMQ_POLLIN)
                                 THEN "recv" ELSE "burst"])
               /\ lastOp' = "loopHead"
               /\ UNCHANGED <<inFlush, active>>
  /\ UNCHANGED <<outgoing, watcher, zstate, inbound, bindPending,
                 sent, nOk, enq, msgLens, events, errs, failAt, ops>>
  /\ UNCHANGED config

\* One turn of the do-while: recv() a part, then test this._receiveMore;
\* after the last part, emit the 'message' event.
FlushRecv ==
  /\ InFrame("flush", "recv")
  /\ inbound # <<>>
  /\ LET h == Head(inbound)
         got == Append(Top.args, h.p)
     IN /\ inbound' = Tail(inbound)
        /\ IF h.more
           THEN /\ stack' = SetTop([Top EXCEPT !.args = got, !.fresh = FALSE])
                /\ lastOp' = "recvMore"
                /\ UNCHANGED events
           ELSE /\ stack' = SetTop([Top EXCEPT !.args = got, !.fresh = FALSE,
                                                !.pc = "emitted"])
                            \o <<Frame("handler", "message")>>
                /\ events' = Append(events, got)
                /\ lastOp' = "emitMessage"
  /\ UNCHANGED <<outgoing, inFlush, watcher, zstate, writable, bindPending,
                 sent, nOk, enq, msgLens, errs, failAt, active, ops>>
  /\ UNCHANGED config

\* recv() (or the read of this._receiveMore that follows it) throws; the
\* part it was about may or may not have left the handle.
FlushRecvFail(consumed) ==
  /\ InFrame("flush", "recv")
  /\ inbound # <<>>
  /\ ops < MaxOps
  /\ ops' = ops + 1
  /\ inbound' = IF consumed THEN Tail(inbound) ELSE inbound
  /\ failAt' = Append(failAt, [flags |-> Top.flags, q |-> outgoing])
  /\ Raise("recvErr", "recvFail")
  /\ UNCHANGED <<outgoing, watcher, zstate, writable, bindPending, sent, nOk,
                 enq, msgLens, events, errs>>
  /\ UNCHANGED config

StateReadyAlways(z) == TRUE
\* this._zmq.state != zmq.STATE_READY, negated
StateReady(z) == z = "ready"

FlushAfterEmitSkipBurst ==
  /\ InFrame("flush", "emitted")
  /\ IF ~StateReady(zstate)
     THEN Leave("abort")
     ELSE /\ stack' = SetTop([Top EXCEPT !.pc = "loop"])
          /\ lastOp' = "afterEmit"
          /\ UNCHANGED <<inFlush, active>>
  /\ UNCHANGED <<outgoing, watcher, zstate, inbound, writable, bindPending,
                 sent, nOk, enq, msgLens, events, errs, failAt, ops>>
  /\ UNCHANGED config
\* After emit('message') has returned: give up when the handle is no longer
\* ready, else go on to the send part.
FlushAfterEmit ==
  /\ InFrame("flush", "emitted")
  /\ IF ~StateReady(zstate)
     THEN Leave("abort")
     ELSE /\ stack' = SetTop([Top EXCEPT !.pc = "burst"])
          /\ lastOp' = "afterEmit"
          /\ UNCHANGED <<inFlush, active>>
  /\ UNCHANGED <<outgoing, watcher, zstate, inbound, writable, bindPending,
                 sent, nOk, enq, msgLens, events, errs, failAt, ops>>
  /\ UNCHANGED config

BurstCondNoFlags(flags, q) == Len(q) # 0
\* (flags & zmq.ZMQ_POLLOUT) && (this._outgoing.length !== 0)
BurstCond(flags, q) == HasBit(flags, ZMQ_POLLOUT) /\ Len(q) # 0

\* One turn of the send loop: shift the front entry, send it, read the
\* readiness again; a send may change the writability.
FlushSend ==
  /\ InFrame("flush", "burst")
  /\ BurstCond(Top.flags, outgoing)
  /\ HandleUsable
  /\ outgoing' = Tail(outgoing)
  /\ sent' = Append(sent, Head(outgoing))
  /\ nOk' = nOk + 1
  /\ writable' \in BOOLEAN
  /\ stack' = SetTop([Top EXCEPT !.flags = IoEventsOf(inbound, writable'),
                                 !.fresh = TRUE])
  /\ lastOp' = "sendOk"
  /\ UNCHANGED <<inFlush, watcher, zstate, inbound, bindPending, enq, msgLens,
                 events, errs, failAt, active, ops>>
  /\ UNCHANGED config

\* The same turn when the handle's send throws: the entry is already shifted.
FlushSendFail ==
  /\ InFrame("flush", "burst")
  /\ BurstCond(Top.flags, outgoing)
  /\ IF HandleUsable
     THEN ops < MaxOps /\ ops' = ops + 1
     ELSE UNCHANGED ops
  /\ outgoing' = Tail(outgoing)
  /\ sent' = Append(sent, Head(outgoing))
  /\ failAt' = Append(failAt, [flags |-> Top.flags, q |-> outgoing'])
  /\ Raise("sendErr", "sendFail")
  /\ UNCHANGED <<watcher, zstate, inbound, writable, bindPending, nOk, enq,
                 msgLens, events, errs>>
  /\ UNCHANGED config

\* The send loop's condition is false: back to the head of the outer loop.
FlushBurstEnd ==
  /\ InFrame("flush", "burst")
  /\ ~BurstCond(Top.flags, outgoing)
  /\ stack' = SetTop([Top EXCEPT !.pc = "loop"])
  /\ lastOp' = "burstEnd"
  /\ UNCHANGED <<outgoing, inFlush, watcher, zstate, inbound, writable,
                 bindPending, sent, nOk, enq, msgLens, events, errs, failAt,
                 active, ops>>
  /\ UNCHANGED config

\* util.inspect(this._outgoing): a rendering of the queue.
inspect(q) == [i \in 1..Len(q) |-> <<"Buffer", q[i].p.v, q[i].flags>>]

FlushCatchSwallow ==
  /\ InFrame("flush", "catch")
  /\ Leave("flushEnd")
  /\ UNCHANGED <<outgoing, watcher, zstate, inbound, writable, bindPending,
                 sent, nOk, enq, msgLens, events, errs, failAt, ops>>
  /\ UNCHANGED config
\* The catch clause up to emit('error', e).  e.flags = flags is itself a
\* TypeError when the thrown value is null or undefined, and that one leaves
\* _flush outside the inner try.
FlushCatch ==
  /\ InFrame("flush", "catch")
  /\ IF Top.e = "hNull"
     THEN /\ stack' = Below
          /\ lastOp' = "flushTypeError"
          /\ UNCHANGED errs
     ELSE /\ errs' = IF Top.e = "evErr" THEN errs
                      ELSE Append(errs, [src |-> Top.e, flags |-> Top.flags,
                                         outgoing |-> inspect(outgoing)])
          /\ stack' = SetTop([Top EXCEPT !.pc = "errEmitted"])
                      \o <<Frame("handler", "error")>>
          /\ lastOp' = "emitError"
  /\ UNCHANGED <<outgoing, inFlush, watcher, zstate, inbound, writable,
                 bindPending, sent, nOk, enq, msgLens, events, failAt, active,
                 ops>>
  /\ UNCHANGED config

\* emit('error') has returned: the last statement of _flush.
FlushEnd ==
  /\ InFrame("flush", "errEmitted")
  /\ Leave("flushEnd")
  /\ UNCHANGED <<outgoing, watcher, zstate, inbound, writable, bindPending,
                 sent, nOk, enq, msgLens, events, errs, failAt, ops>>
  /\ UNCHANGED config

\* ------------------------------------------------------------- listeners
\* A listener (or emit with no listener) returns.
HandlerReturn ==
  /\ stack # <<>> /\ Top.k = "handler"
  /\ stack' = Below
  /\ lastOp' = "handlerReturn"
  /\ UNCHANGED <<outgoing, inFlush, watcher, zstate, inbound, writable,
                 bindPending, sent, nOk, enq, msgLens, events, errs, failAt,
                 active, ops>>
  /\ UNCHANGED config

\* A listener throws val ("hErr": an Error object, "hNull": null or
\* undefined); emit('error') with no listener throws as well.  In the try
\* block the exception goes to the catch clause; in the catch clause the
\* inner catch clears the guard and throws it on.
HandlerThrow(val) ==
  /\ stack # <<>> /\ Top.k = "handler"
  /\ ops < MaxOps
  /\ ops' = ops + 1
  /\ LET f == stack[Len(stack) - 1]
         rest == SubSeq(stack, 1, Len(stack) - 2)
     IN IF f.pc = "emitted"
        THEN /\ stack' = rest \o <<[f EXCEPT !.pc = "catch", !.e = val]>>
             /\ lastOp' = "handlerThrow"
             /\ UNCHANGED <<inFlush, active>>
        ELSE /\ stack' = rest
             /\ inFlush' = FALSE
             /\ active' = active - 1
             /\ lastOp' = "flushRethrow"
  /\ UNCHANGED <<outgoing, watcher, zstate, inbound, writable, bindPending,
                 sent, nOk, enq, msgLens, events, errs, failAt>>
  /\ UNCHANGED config

\* ------------------------------------------------------------- the peer
\* A whole multi-part message becomes receivable.
Arrive(n) ==
  /\ ops < MaxOps
  /\ ops' = ops + 1
  /\ inbound' = inbound \o
       [i \in 1..n |-> [p |-> <<Len(msgLens) + 1, i>>, more |-> i < n]]
  /\ msgLens' = Append(msgLens, n)
  /\ lastOp' = "env"
  /\ UNCHANGED <<outgoing, inFlush, watcher, zstate, stack, writable,
                 bindPending, sent, nOk, enq, events, errs, failAt, active>>
  /\ UNCHANGED config

\* -------------------------------------------------------------- lifecycle
CloseHandleFirst ==
  /\ AppCtx
  /\ watcher # "released"
  /\ zstate' = "closed"
  /\ stack' = stack \o <<Frame("close", "handle")>>
  /\ lastOp' = "closeWatcher"
  /\ UNCHANGED <<outgoing, inFlush, watcher, inbound, writable, bindPending,
                 sent, nOk, enq, msgLens, events, errs, failAt, active, ops>>
  /\ UNCHANGED config
\* close(), first part: this._watcher.stop(); this._watcher = undefined.
\* With the watcher already released the first statement is a TypeError and
\* nothing happens.
CloseWatcher ==
  /\ AppCtx
  /\ watcher # "released"
  /\ watcher' = "released"
  /\ stack' = stack \o <<Frame("close", "handle")>>
  /\ lastOp' = "closeWatcher"
  /\ UNCHANGED <<outgoing, inFlush, zstate, inbound, writable, bindPending,
                 sent, nOk, enq, msgLens, events, errs, failAt, active, ops>>
  /\ UNCHANGED config

CloseHandleDiscard(ok) ==
  /\ InFrame("close", "handle")
  /\ zstate = "ready" => ok
  /\ zstate' = IF ok THEN "closed" ELSE zstate
  /\ outgoing' = <<>>
  /\ stack' = Below
  /\ lastOp' = IF ok THEN "close" ELSE "closeThrow"
  /\ UNCHANGED <<inFlush, watcher, inbound, writable, bindPending,
                 sent, nOk, enq, msgLens, events, errs, failAt, active, ops>>
  /\ UNCHANGED config
\* close(), second part: this._zmq.close().  On a handle that is busy with a
\* bind the call either closes it or throws.
CloseHandle(ok) ==
  /\ InFrame("close", "handle")
  /\ zstate = "ready" => ok
  /\ zstate' = IF ok THEN "closed" ELSE zstate
  /\ stack' = Below
  /\ lastOp' = IF ok THEN "close" ELSE "closeThrow"
  /\ UNCHANGED <<outgoing, inFlush, watcher, inbound, writable, bindPending,
                 sent, nOk, enq, msgLens, events, errs, failAt, active, ops>>
  /\ UNCHANGED config

BindNoStop(throws) ==
  /\ AppCtx
  /\ watcher # "released"
  /\ ops < MaxOps
  /\ ops' = ops + 1
  /\ ~HandleUsable => throws
  /\ IF throws
     THEN /\ lastOp' = "bindThrow"
          /\ UNCHANGED <<zstate, bindPending>>
     ELSE /\ zstate' = "busy"
          /\ bindPending' = TRUE
          /\ lastOp' = "bind"
  /\ UNCHANGED <<outgoing, inFlush, watcher, stack, inbound, writable, sent,
                 nOk, enq, msgLens, events, errs, failAt, active>>
  /\ UNCHANGED config
\* bind(addr, cb): stop the watcher, start the handle's asynchronous bind.
\* The handle's bind throws at once on a handle that is not ready, and may
\* throw at once on its arguments; nothing catches that.
Bind(throws) ==
  /\ AppCtx
  /\ watcher # "released"
  /\ ops < MaxOps
  /\ ops' = ops + 1
  /\ ~HandleUsable => throws
  /\ watcher' = "stopped"
  /\ IF throws
     THEN /\ lastOp' = "bindThrow"
          /\ UNCHANGED <<zstate, bindPending>>
     ELSE /\ zstate' = "busy"
          /\ bindPending' = TRUE
          /\ lastOp' = "bind"
  /\ UNCHANGED <<outgoing, inFlush, stack, inbound, writable, sent, nOk, enq,
                 msgLens, events, errs, failAt, active>>
  /\ UNCHANGED config

\* The handle's bind calls back from the event loop, with or without an
\* error: self._watcher.start(); cb(err).  After close() the first statement
\* is a TypeError and cb is not called.
BindDone(err) ==
  /\ stack = <<>>
  /\ bindPending
  /\ bindPending' = FALSE
  /\ zstate' = IF zstate = "busy" THEN "ready" ELSE zstate
  /\ IF watcher = "released"
     THEN /\ lastOp' = "bindCbTypeError"
          /\ UNCHANGED watcher
     ELSE /\ watcher' = "started"
          /\ lastOp' = IF err THEN "bindCbErr" ELSE "bindCbOk"
  /\ UNCHANGED <<outgoing, inFlush, stack, inbound, writable, sent, nOk, enq,
                 msgLens, events, errs, failAt, active, ops>>
  /\ UNCHANGED config

\* bindSync(addr), first part: self._watcher.stop().
BindSyncStop ==
  /\ AppCtx
  /\ watcher # "released"
  /\ ops < MaxOps
  /\ ops' = ops + 1
  /\ watcher' = "stopped"
  /\ stack' = stack \o <<Frame("bindSync", "handle")>>
  /\ lastOp' = "bindSyncStop"
  /\ UNCHANGED <<outgoing, inFlush, zstate, inbound, writable, bindPending,
                 sent, nOk, enq, msgLens, events, errs, failAt, active>>
  /\ UNCHANGED config

\* bindSync(addr), second part: the handle's bindSync, then start the
\* watcher; when the handle's bindSync throws, start the watcher and throw
\* on.
BindSync(throws) ==
  /\ InFrame("bindSync", "handle")
  /\ ~HandleUsable => throws
  /\ watcher' = "started"
  /\ stack' = Below
  /\ lastOp' = IF throws THEN "bindSyncThrow" ELSE "bindSyncOk"
  /\ UNCHANGED <<outgoing, inFlush, zstate, inbound, writable, bindPending,
                 sent, nOk, enq, msgLens, events, errs, failAt, active, ops>>
  /\ UNCHANGED config

\* connect(addr): this._zmq.connect(addr) and nothing else; the handle's
\* connect throws on a handle that is not ready and may throw on its
\* argument.
Connect(throws) ==
  /\ AppCtx
  /\ ops < MaxOps
  /\ ops' = ops + 1
  /\ ~HandleUsable => throws
  /\ lastOp' = IF throws THEN "connectThrow" ELSE "connect"
  /\ UNCHANGED <<outgoing, inFlush, watcher, zstate, stack, inbound, writable,
                 bindPending, sent, nOk, enq, msgLens, events, errs, failAt,
                 active>>
  /\ UNCHANGED config

\* var types: the names of the socket types.
types ==
  {"pub", "sub", "req", "xreq", "rep", "xrep", "push", "pull", "dealer",
   "router", "pair"}

\* var opts: the names of the socket options.
opts ==
  {"_fd", "_ioevents", "_receiveMore", "_subscribe", "_unsubscribe",
   "ioThreadAffinity", "backlog", "highWaterMark", "identity", "lingerPeriod",
   "multicastLoop", "multicastDateRate", "receiveBufferSize",
   "reconnectInterval", "multicastRecovery", "sendBufferSize",
   "diskOffloadSize"}

\* The arguments createSocket is tried with: every type name and one name
\* that is not a type; option objects whose keys are taken from three option
\* names and one name that is not an option.
TypeInputs == types \cup {"stream"}
OptionInputs == {"highWaterMark", "identity", "lingerPeriod", "verbose"}

\* new zmq.Socket(context, types[type]): the handle's constructor refuses a
\* type that the table does not hold (types[type] is undefined).
HandleCtorThrows(type) == type \notin types

\* sock[key] = options[key] for every own key: a key with an accessor goes to
\* setsockopt, any other key becomes a plain property of the wrapper.
AssignOptions(c) ==
  [c EXCEPT !.result = "sock",
            !.setopts = c.options \cap opts,
            !.props = c.options \ opts]

\* createSocket(typename, options): new Socket(typename), then the options.
CreateSocket ==
  /\ config.result = "call"
  /\ IF HandleCtorThrows(config.typename)
     THEN /\ config' = [config EXCEPT !.result = "threw"]
          /\ lastOp' = "createSocketThrow"
          /\ UNCHANGED <<watcher, zstate>>
     ELSE /\ config' = AssignOptions(config)
          /\ watcher' = "started"
          /\ zstate' = "ready"
          /\ lastOp' = "createSocket"
  /\ outgoing' = <<>>
  /\ inFlush' = FALSE
  /\ UNCHANGED <<stack, inbound, writable, bindPending, sent, nOk, enq,
                 msgLens, events, errs, failAt, active, ops>>

\* Before createSocket has run there is no wrapper, no watcher and no handle.
InitCreate ==
  /\ outgoing = <<>>
  /\ inFlush = FALSE
  /\ watcher = "none"
  /\ zstate = "none"
  /\ stack = <<>>
  /\ inbound = <<>>
  /\ writable = FALSE
  /\ bindPending = FALSE
  /\ sent = <<>>
  /\ nOk = 0
  /\ enq = <<>>
  /\ msgLens = <<>>
  /\ events = <<>>
  /\ errs = <<>>
  /\ failAt = <<>>
  /\ active = 0
  /\ ops = 0
  /\ lastOp = "init"
  /\ \E type \in TypeInputs, options \in SUBSET OptionInputs :
       config = [typename |-> type, options |-> options, result |-> "call",
                 setopts |-> {}, props |-> {}]

NextCreate == CreateSocket

SpecCreate == InitCreate /\ [][NextCreate]_vars

\* The socket the other operations are called on: createSocket('req').
Init ==
  /\ config = [typename |-> "req", options |-> {}, result |-> "sock",
               setopts |-> {}, props |-> {}]
  /\ outgoing = <<>>
  /\ inFlush = FALSE
  /\ watcher = "started"
  /\ zstate = "ready"
  /\ stack = <<>>
  /\ inbound = <<>>
  /\ writable = FALSE
  /\ bindPending = FALSE
  /\ sent = <<>>
  /\ nOk = 0
  /\ enq = <<>>
  /\ msgLens = <<>>
  /\ events = <<>>
  /\ errs = <<>>
  /\ failAt = <<>>
  /\ active = 0
  /\ ops = 0
  /\ lastOp = "init"

Next ==
  \/ \E n \in 1..MaxParts, t \in {"str", "buf"} : Send(n, t)
  \/ WatcherFire
  \/ FlushLoop
  \/ FlushRecv
  \/ \E consumed \in BOOLEAN : FlushRecvFail(consumed)
  \/ FlushAfterEmit
  \/ FlushSend
  \/ FlushSendFail
  \/ FlushBurstEnd
  \/ FlushCatch
  \/ FlushEnd
  \/ HandlerReturn
  \/ \E val \in {"hErr", "hNull"} : HandlerThrow(val)
  \/ \E n \in 1..MaxParts : Arrive(n)
  \/ CloseWatcher
  \/ \E ok \in BOOLEAN : CloseHandle(ok)
  \/ \E throws \in BOOLEAN : Bind(throws)
  \/ \E err \in BOOLEAN : BindDone(err)
  \/ BindSyncStop
  \/ \E throws \in BOOLEAN : BindSync(throws)
  \/ \E throws \in BOOLEAN : Connect(throws)

Spec == Init /\ [][Next]_vars

\* A function that is running goes on running: the steps of _flush, of
\* close() and of bindSync(), and a listener coming to its end.
Run ==
  \/ FlushLoop
  \/ FlushRecv
  \/ \E consumed \in BOOLEAN : FlushRecvFail(consumed)
  \/ FlushAfterEmit
  \/ FlushSend
  \/ FlushSendFail
  \/ FlushBurstEnd
  \/ FlushCatch
  \/ FlushEnd
  \/ HandlerReturn
  \/ \E val \in {"hErr", "hNull"} : HandlerThrow(val)
  \/ \E ok \in BOOLEAN : CloseHandle(ok)
  \/ \E throws \in BOOLEAN : BindSync(throws)

SpecLive == Spec /\ WF_vars(Run)
\* ------------------------------------------------------------------ claims
HandleSrc == {"recvErr", "sendErr"}
HandleErrs == SelectSeq(errs, LAMBDA x : x.src \in HandleSrc)
InCatch == {i \in FlushFrames : stack[i].pc = "catch" /\ stack[i].e \in HandleSrc}
\* All the parts of inbound message m, in the order the handle produces them.
Whole(m) == [i \in 1..msgLens[m] |-> <<m, i>>]

\* C1: the send calls made on the handle are, in order, a prefix of the
\* groups given to send() in call order, each part with the 'more' flag
\* exactly when it is not the last of its group.
C1_SendOrder == IsPrefix(sent, enq)
C1_Witness ==
  /\ lastOp = "sendOk"
  /\ Len(sent) >= 3
  /\ sent = enq
  /\ events # <<>>

\* C2: at most one activation is inside the loop: the counter of guard
\* settings minus guard clearings never exceeds 1, and no second _flush
\* frame is ever on the stack.
C2_SingleActivation == active <= 1 /\ Cardinality(FlushFrames) <= 1
C2_Witness ==
  /\ lastOp = "sendGuarded"
  /\ stack # <<>>
  /\ Top.k = "handler"
  /\ active = 1

\* C3: whenever no activation is on the stack (every activation that set the
\* guard has returned or thrown), this._inFlush is false.
C3_GuardClearedOnExit == FlushFrames = {} => inFlush = FALSE

\* C4: every 'message' event carries exactly the parts of one whole inbound
\* message, in order, and no two events carry the same message.
C4_WholeMessages ==
  /\ \A k \in 1..Len(events) :
       \E m \in 1..Len(msgLens) : events[k] = Whole(m)
  /\ \A j, k \in 1..Len(events) : events[j] = events[k] => j = k

\* C5: a pass through the head of the loop that finds the queue empty and the
\* handle writable but not readable ends the activation, with the guard
\* cleared and no send call made.
C5_EmptyQueueWritable ==
  [][(/\ InFrame("flush", "loop")
      /\ lastOp' \in {"loopHead", "loopBreak"}
      /\ Len(outgoing) = 0
      /\ inbound = <<>>
      /\ writable')
     => (/\ lastOp' = "loopBreak"
         /\ stack' = Below
         /\ inFlush' = FALSE
         /\ sent' = sent)]_vars
C5_Witness ==
  /\ lastOp = "loopBreak"
  /\ writable
  /\ Len(outgoing) = 0
  /\ inbound = <<>>

\* C6: the handle is never closed while the watcher is started, and close()
\* reaches its handle statement only with the watcher released.
C6_WatcherStoppedBeforeClose ==
  /\ zstate = "closed" => watcher # "started"
  /\ InFrame("close", "handle") => watcher = "released"
C6_Witness ==
  /\ lastOp = "close"
  /\ zstate = "closed"
  /\ FlushFrames # {}

\* C7 as claimed: when close() has returned, the Outgoing Queue is empty.
C7_CloseDiscardsQueue == lastOp = "close" => Len(outgoing) = 0
\* C7 as amended: closing the handle leaves the Outgoing Queue as it was, and
\* while the handle is closed no entry leaves the queue and no send call is
\* made on the handle.
C7_CloseKeepsQueue ==
  [][zstate' = "closed" => (sent' = sent /\ IsPrefix(outgoing, outgoing'))]_vars
C7_Witness ==
  /\ lastOp = "close"
  /\ zstate = "closed"
  /\ Len(outgoing) > 0

\* C8: when a bind() or bindSync() attempt has finished, by return, by throw
\* or by callback, the watcher is started.
C8_WatcherRestartedAfterBind ==
  lastOp \in {"bindThrow", "bindCbOk", "bindCbErr", "bindSyncOk", "bindSyncThrow"}
    => watcher = "started"

\* C9: every failure of the handle's recv or send has exactly one 'error'
\* event, in order, carrying the flags and the rendering of the queue of the
\* moment of the failure; the one still on its way to the catch clause is the
\* only one without its event.
C9_OneErrorEventPerFailure ==
  /\ Len(HandleErrs) + Cardinality(InCatch) = Len(failAt)
  /\ \A i \in 1..Len(HandleErrs) :
       /\ i <= Len(failAt)
       /\ HandleErrs[i].flags = failAt[i].flags
       /\ HandleErrs[i].outgoing = inspect(failAt[i].q)
C9_Witness ==
  /\ lastOp = "emitError"
  /\ errs # <<>>
  /\ errs[Len(errs)].src = "sendErr"
  /\ errs[Len(errs)].outgoing # <<>>

\* C10: a failure of the handle's send or recv leaves in the queue, in
\* order, every entry not successfully sent, the failed one included, and
\* leaves the watcher as it was.
C10_FailureKeepsQueue ==
  [][lastOp' \in {"sendFail", "recvFail"}
     => (outgoing' = Drop(enq', nOk') /\ watcher' = watcher)]_vars
\* C11, first part: a send() call made while no activation is on the stack
\* does not return at the guard.
C11_Enters == lastOp' = "sendGuarded" => FlushFrames # {}
\* C11, second part: the first pass through the head of the loop after
\* send(), on a handle that reports writable and not readable, goes to the
\* send loop.
C11_ToBurst ==
  (lastOp = "send" /\ lastOp' \in {"loopHead", "loopBreak"}
     /\ writable' /\ inbound = <<>>)
    => (lastOp' = "loopHead" /\ Top'.pc = "burst")
\* C11, third part: in the send loop, while the flags report writable and
\* the queue is not empty, the next step of the activation passes the front
\* entry to the handle's send.
C11_Sends ==
  (InFrame("flush", "burst") /\ HasBit(Top.flags, ZMQ_POLLOUT)
     /\ Len(outgoing) # 0 /\ lastOp' # "env")
    => sent' = Append(sent, Head(outgoing))
\* C11: send() is eager: called with no activation in progress and the
\* handle writable, it passes the queued entries to the handle's send before
\* it returns, for as long as the handle reports writable.
C11_EagerSend == [][C11_Enters /\ C11_ToBurst /\ C11_Sends]_vars
C11_PartsHold == [][C11_ToBurst /\ C11_Sends]_vars

\* C12: the queue is what is left of the groups given to send(), in call
\* order and with the 'more' flag on all but the last part of each group,
\* after removing as many entries from the front as send calls were made.
C12_QueueIsSuffix == outgoing = Drop(enq, Len(sent))
C12_Witness ==
  /\ Len(outgoing) >= 3
  /\ Len(sent) >= 1
  /\ outgoing[1].flags = 0
\* C14 as claimed: every send call is made on flags that report writable
\* and were read after the last recv and the last listener run.
C14_SendsOnFreshReadiness ==
  [][Len(sent') > Len(sent)
     => (Top.fresh /\ HasBit(Top.flags, ZMQ_POLLOUT))]_vars
\* C14 as amended: every send call is made while the readiness the handle
\* last reported, at the head of the loop or after the previous send, is
\* writable, and after every successful send the readiness is read again.
C14_SendsOnLastRead ==
  [][/\ Len(sent') > Len(sent)
        => (writable /\ HasBit(Top.flags, ZMQ_POLLOUT))
     /\ lastOp' = "sendOk"
        => (Top'.fresh /\ Top'.flags = IoEventsOf(inbound', writable'))]_vars
C14_Witness ==
  /\ lastOp = "sendOk"
  /\ Top.args # <<>>

\* C15: the step after emit('message') has returned, taken with the handle
\* not ready, ends the activation with the guard cleared and without a recv,
\* a send or a change of the queue.
C15_AbortAfterEmit ==
  [][(/\ InFrame("flush", "emitted")
      /\ zstate # "ready"
      /\ lastOp' \in {"abort", "afterEmit"})
     => (/\ lastOp' = "abort"
         /\ stack' = Below
         /\ inFlush' = FALSE
         /\ sent' = sent
         /\ inbound' = inbound
         /\ outgoing' = outgoing)]_vars
C15_Witness ==
  /\ lastOp = "abort"
  /\ zstate = "closed"
  /\ Len(outgoing) > 0
  /\ inbound # <<>>

\* C16 as claimed: when an activation has ended, by whatever exit, the
\* handle is not readable and the queue is empty or the handle not writable.
C16_ConsistentAtEveryExit ==
  lastOp \in {"loopBreak", "abort", "flushEnd", "flushRethrow", "flushTypeError"}
    => (inbound = <<>> /\ (Len(outgoing) = 0 \/ ~writable))
\* C16 as amended: when an activation has ended through the break of its
\* loop, the handle is not readable and the queue is empty or the handle not
\* writable.
C16_ConsistentAtLoopExit ==
  lastOp = "loopBreak"
    => (inbound = <<>> /\ (Len(outgoing) = 0 \/ ~writable))
C16_Witness ==
  /\ lastOp = "loopBreak"
  /\ Len(outgoing) > 0
  /\ ~writable
  /\ events # <<>>

\* C17 as claimed: a pass through the send loop after a message event, with
\* the queue not empty and the handle writable, makes a send call.
C17_SendsBetweenMessages ==
  [][(/\ InFrame("flush", "burst")
      /\ lastOp' = "burstEnd"
      /\ Top.args # <<>>
      /\ Len(outgoing) # 0
      /\ writable)
     => Top.fresh]_vars
\* C17 as amended: after a message event the activation goes to the send
\* loop, not back to receiving; the send loop makes a send call whenever its
\* flags report writable and the queue is not empty; and every step of the
\* send loop either removes one entry from the queue or leaves the loop.
C17_OneMessageThenBurst ==
  [][/\ (InFrame("flush", "emitted") /\ lastOp' = "afterEmit")
        => Top'.pc = "burst"
     /\ (InFrame("flush", "burst") /\ HasBit(Top.flags, ZMQ_POLLOUT)
           /\ Len(outgoing) # 0 /\ lastOp' # "env")
        => Len(sent') = Len(sent) + 1
     /\ (InFrame("flush", "burst") /\ lastOp' # "env")
        => (Len(outgoing') = Len(outgoing) - 1 \/ Top'.pc # "burst")]_vars
C17_Witness ==
  /\ lastOp = "emitMessage"
  /\ Len(events) >= 2
  /\ Len(sent) >= 1

\* C18: the call stack never holds more than an activation, a listener and
\* one lifecycle call, and every activation that is on the stack leaves it.
C18_ActivationsTerminate ==
  /\ [](Len(stack) <= 3)
  /\ (FlushFrames # {}) ~> (FlushFrames = {})
C18_Witness ==
  /\ lastOp = "loopBreak"
  /\ Len(sent) >= 1
  /\ events # <<>>
  /\ Len(outgoing) = 0

\* C19 as claimed: the handle's bind, bindSync and connect are invoked only
\* with the watcher stopped.
C19_HandleOpsWhileStopped ==
  (lastOp \in {"bind", "bindThrow", "connect", "connectThrow"}
     \/ InFrame("bindSync", "handle"))
    => watcher = "stopped"
\* C19 as amended: the handle's bind and bindSync are invoked only with the
\* watcher stopped, and bindSync leaves it started; connect invokes the
\* handle's connect with the watcher left as it is.
C19_BindOpsWhileStopped ==
  [][/\ lastOp' \in {"bind", "bindThrow"} => watcher' = "stopped"
     /\ InFrame("bindSync", "handle")
        => (watcher = "stopped"
            /\ (lastOp' \in {"bindSyncOk", "bindSyncThrow"}
                  => watcher' = "started"))
     /\ lastOp' \in {"connect", "connectThrow"} => watcher' = watcher]_vars
C19_Witness ==
  /\ lastOp = "connect"
  /\ watcher = "started"

\* C20: no 'message' event starts in the middle of an inbound message: the
\* first part every event carries is the first part of its message.
C20_NoTailAfterRecvFailure ==
  \A k \in 1..Len(events) : events[k][1][2] = 1
\* C13: once createSocket has run with a type name that is not in the type
\* table or with an option name that is not in the option table, it has
\* thrown, no watcher is started and no key has become a plain property.
C13_ConfigErrorsFailFast ==
  (/\ config.result # "call"
   /\ (config.typename \notin types \/ ~(config.options \subseteq opts)))
    => (/\ config.result = "threw"
        /\ watcher # "started"
        /\ config.props = {})
====
